---- MODULE Spec2Model ----
(***************************************************************************)
(* A model of ZVK.py (Zariski-Van Kampen method): the braid extraction of  *)
(* braid_from_piecewise, the precision escalation of followstrand, the     *)
(* root matching of braid_in_segment, the path network of segments and     *)
(* the parallel assembly of fundamental_group.                             *)
(*                                                                         *)
(* Numbers.  A time t in [0,1] is the integer t*TEnd of the grid 0..TEnd.  *)
(* A complex number is a pair <<re, im>> of integers; sample values are    *)
(* multiples of Scale, so that every interpolation at a grid time is exact *)
(* (the program computes in floating point, the model in exact numbers).   *)
(* A crossing parameter t* is the fraction num/den with den > 0, compared  *)
(* by cross multiplication.                                                *)
(***************************************************************************)
EXTENDS Integers, Sequences, FiniteSets, TLC

\* ------------------------------------------------------------------ bounds

\* the time grid: t = 1 is TEnd, samples sit at 0..TEnd
TEnd == 2
\* how many samples the resampling step may insert into a family
MaxResamples == 1
\* how many times followstrand may run the continuation kernel
MaxAttempts == 4

\* the number of tasks the parallel decorator runs at once
NCpus == 2

\* --------------------------------------------------------------- utilities

None == "none"

Range(s) == {s[x] : x \in DOMAIN s}

Abs(x) == IF x < 0 THEN -x ELSE x

\* Python's cmp
Cmp(a, b) == IF a < b THEN -1 ELSE IF a > b THEN 1 ELSE 0

Sign(x) == Cmp(x, 0)

MinOf(S) == CHOOSE x \in S : \A y \in S : x <= y

MaxOf(S) == CHOOSE x \in S : \A y \in S : y <= x

RECURSIVE Fact(_)
Fact(n) == IF n <= 1 THEN 1 ELSE n * Fact(n - 1)

\* sample values are multiples of Scale: interpolation at grid times is exact
Scale == Fact(TEnd)

\* the increasing sequence of a finite set of integers
RECURSIVE SetToSeq(_)
SetToSeq(S) == IF S = {} THEN << >> ELSE <<MinOf(S)>> \o SetToSeq(S \ {MinOf(S)})

\* comparison of Python lists/tuples of numbers
RECURSIVE LexLess(_, _)
LexLess(a, b) ==
  IF a = << >> THEN b # << >>
  ELSE IF b = << >> THEN FALSE
  ELSE IF a[1] # b[1] THEN a[1] < b[1]
  ELSE LexLess(Tail(a), Tail(b))

\* a point [re, im]
PtLess(p, q) == LexLess(p, q)

\* an entry [l1[s], l2[s]] of M
PairLess(m, n) == PtLess(m[1], n[1]) \/ (m[1] = n[1] /\ PtLess(m[2], n[2]))

\* an entry [t, k, j, -s] of cruces, as <<num, den, k, j, sign>>, t = num/den
CruceLess(a, b) ==
  \/ a[1] * b[2] < b[1] * a[2]
  \/ /\ a[1] * b[2] = b[1] * a[2]
     /\ LexLess(<<a[3], a[4], a[5]>>, <<b[3], b[4], b[5]>>)

SameT(a, b) == a[1] * b[2] = b[1] * a[2]

\* list.sort(): position r holds the element of rank r (stable)
SortPairs(s) ==
  LET n == Len(s)
      rank(x) == 1 + Cardinality({y \in 1..n :
                     PairLess(s[y], s[x]) \/ (~PairLess(s[x], s[y]) /\ y < x)})
  IN [r \in 1..n |-> s[CHOOSE x \in 1..n : rank(x) = r]]

SortCruces(s) ==
  LET n == Len(s)
      rank(x) == 1 + Cardinality({y \in 1..n :
                     CruceLess(s[y], s[x]) \/ (~CruceLess(s[x], s[y]) /\ y < x)})
  IN [r \in 1..n |-> s[CHOOSE x \in 1..n : rank(x) = r]]

SortTuples(s) ==
  LET n == Len(s)
      rank(x) == 1 + Cardinality({y \in 1..n :
                     LexLess(s[y], s[x]) \/ (~LexLess(s[x], s[y]) /\ y < x)})
  IN [r \in 1..n |-> s[CHOOSE x \in 1..n : rank(x) = r]]

\* ------------------------------------------------- braid_from_piecewise

VARIABLES
  L,            \* strands: a list of lists of samples <<t, <<re, im>>>>
  i,            \* the common time reached by the merge loop
  totalpoints,  \* per strand, the merged points [re, im]
  indices,      \* per strand, the index (1-based) of its next sample
  sl,           \* the slice (pair of consecutive merged points) being processed
  cruces,       \* pending crossings of the slice, sorted
  crossesl,     \* pending simultaneous crossings <<distance, k, j, sign>>
  P,            \* the running permutation: strand (by rank at the slice start) -> position
  braid,        \* the emitted generators
  pc,           \* where braid_from_piecewise is
  \* history of the run, read by the properties only
  visited,      \* the common times the merge loop went through
  tsel,         \* the t, <<num, den>>, of the simultaneous crossings being processed
  emitted,      \* the emissions of the current slice
  first,        \* the word emitted for the family before any resampling
  orig,         \* the family before any resampling
  nres          \* the number of samples inserted so far

varsB == <<L, i, totalpoints, indices, sl, cruces, crossesl, P, braid, pc,
           visited, tsel, emitted, first, orig, nres>>

\* followstrand
VARIABLES
  fsArgs,    \* the arguments f, x0, x1, y0a of the outermost call
  fsPrec,    \* prec of the innermost call
  fsCoefs,   \* what the innermost call has prepared for the kernel
  fsDepth,   \* the number of calls of followstrand on the stack
  fsPc,      \* where the innermost call is
  fsPoints,  \* the value being returned
  fsCalls    \* history: the kernel calls made, with their outcomes

varsF == <<fsArgs, fsPrec, fsCoefs, fsDepth, fsPc, fsPoints, fsCalls>>

\* braid_in_segment
VARIABLES
  y0s,             \* the exact roots of f(x0, y)
  y1s,             \* the exact roots of f(x1, y)
  complexstrands,  \* the tracked strands, one per root at x0
  centralbraid,
  used,
  initialstrands,
  initialbraid,
  finalstrands,
  sgK,             \* the index of the strand the matching loop is at
  sgPc,            \* where braid_in_segment is
  sgResult         \* the braid returned, or the error raised

varsS == <<y0s, y1s, complexstrands, centralbraid, used, initialstrands, initialbraid,
           finalstrands, sgK, sgPc, sgResult>>

\* fundamental_group
VARIABLES
  d,           \* the degree in y of the polynomial
  simplified,
  projective,
  disc,        \* the branch points
  segs,
  vertices,
  rels,
  pending,     \* the segments whose task is not started yet
  workers,     \* the segments whose task is running
  outcomes,    \* what each finished task did: the braid it returned, or that it raised
  yielded,     \* the segments whose result the loop has received, in the order of arrival
  G,
  fgPc

varsG == <<d, simplified, projective, disc, segs, vertices, rels, pending, workers, outcomes,
           yielded, G, fgPc>>

vars == <<varsB, varsF, varsS, varsG>>

\* t, re, im of a sample
TimeOf(sample) == sample[1]

ValOf(sample) == sample[2]

\* line 78 on each coordinate: xaux + (yaux - xaux)*(i - aaux)/(baux - aaux)
InterpolaBad(strand, ix, t) == ValOf(strand[ix - 1])

Interpola(strand, ix, t) ==
  LET xaux == ValOf(strand[ix - 1])
      yaux == ValOf(strand[ix])
      aaux == TimeOf(strand[ix - 1])
      baux == TimeOf(strand[ix])
  IN <<xaux[1] + ((yaux[1] - xaux[1]) * (t - aaux)) \div (baux - aaux),
       xaux[2] + ((yaux[2] - xaux[2]) * (t - aaux)) \div (baux - aaux)>>

\* every index still points at a sample of its strand
InRange(strands, idx) == \A k \in 1..Len(strands) : idx[k] <= Len(strands[k])

\* lines 68 and 83: min([L[k][indices[k]][0] for k in range(len(L))])
NextTime(strands, idx) == MinOf({TimeOf(strands[k][idx[k]]) : k \in 1..Len(strands)})

\* line 71: while i < 1
LoopCondBad(t) == t <= TEnd

LoopCond(t) == t < TEnd

\* lines 72-82: one pass of the for loop over the strands
MergePoints(strands, idx, tp, t) ==
  [j \in 1..Len(strands) |->
     IF TimeOf(strands[j][idx[j]]) > t
     THEN Append(tp[j], Interpola(strands[j], idx[j], t))
     ELSE Append(tp[j], ValOf(strands[j][idx[j]]))]

MergeIndices(strands, idx, t) ==
  [j \in 1..Len(strands) |->
     IF TimeOf(strands[j][idx[j]]) > t THEN idx[j] ELSE idx[j] + 1]

\* lines 84-85
AppendLast(strands, tp) ==
  [j \in 1..Len(strands) |-> Append(tp[j], ValOf(strands[j][Len(strands[j])]))]

\* lines 89-94: the slice's start and end points, sorted together
SortMBad(tp, s) == [x \in 1..Len(tp) |-> <<tp[x][s], tp[x][s + 1]>>]

SortM(tp, s) == SortPairs([x \in 1..Len(tp) |-> <<tp[x][s], tp[x][s + 1]>>])

\* line 99, as a fraction
CrossDen(M, k, j) == M[k][2][1] - M[k][1][1] + M[j][1][1] - M[j][2][1]

CrossNum(M, k, j) == M[j][1][1] - M[k][1][1]

\* line 100, both sides multiplied by the (positive) denominator
CrossSign(M, k, j) ==
  LET num == CrossNum(M, k, j)
      den == CrossDen(M, k, j)
  IN Cmp(M[k][1][2] * (den - num) + num * M[k][2][2],
         M[j][1][2] * (den - num) + num * M[j][2][2])

\* line 98: if l2[j] < l2[k]   (k < j, ranks in M, 1-based here)
Flips(M, k, j) == PtLess(M[j][2], M[k][2])

\* lines 95-101 and 103: cruces, with k and j 0-based as in the program
Cruces(M) ==
  LET n == Len(M)
      pairs == {kj \in (1..n) \X (1..n) : kj[1] < kj[2] /\ Flips(M, kj[1], kj[2])}
      \* the order of the two for loops: j outer, k inner
      order == SetToSeq({kj[2] * (n + 1) + kj[1] : kj \in pairs})
      entry(code) ==
        LET j == code \div (n + 1)
            k == code % (n + 1)
        IN <<CrossNum(M, k, j), CrossDen(M, k, j), k - 1, j - 1, -CrossSign(M, k, j)>>
  IN SortCruces([x \in 1..Len(order) |-> entry(order[x])])

\* a crossing the program cannot evaluate: 0/0 at line 99, or a zero sign
Degenerate(cs) == \E x \in 1..Len(cs) : cs[x][2] <= 0 \/ cs[x][5] = 0

\* line 104
Identity(n) == [x \in 1..n |-> x]

\* line 107: the crossings with the first one's t
SameTPrefix(cs) == SelectSeq(cs, LAMBDA c : SameT(c, cs[1]))

\* lines 108 and 115
Distance(perm, k, j) == perm[j + 1] - perm[k + 1]

WithDistances(perm, cs) ==
  [x \in 1..Len(cs) |-> <<Distance(perm, cs[x][3], cs[x][4]), cs[x][3], cs[x][4], cs[x][5]>>]

Redistance(perm, cl) ==
  [x \in 1..Len(cl) |-> <<Distance(perm, cl[x][2], cl[x][3]), cl[x][2], cl[x][3], cl[x][4]>>]

\* lines 111-112: crossesl.sort(); c = crossesl.pop(0)
PopBad(cl) ==
  [c |-> SortTuples(cl)[Len(cl)], rest |-> SubSeq(SortTuples(cl), 1, Len(cl) - 1)]

Pop(cl) == [c |-> SortTuples(cl)[1], rest |-> Tail(SortTuples(cl))]

\* line 113
Letter(perm, c) == c[4] * MinOf({perm[c[2] + 1], perm[c[3] + 1]})

\* line 114: G(Permutation([(k+1, j+1)])) * P, products taken left to right
Transposed(perm, c) ==
  [perm EXCEPT ![c[2] + 1] = perm[c[3] + 1], ![c[3] + 1] = perm[c[2] + 1]]


\* --------------------------------------------- the strand families explored

ReVals == {r * Scale : r \in 0..2}

ImVals == {m * Scale : m \in 0..1}

StrandCounts == {2, 3}

\* a strand with the two samples t = 0 and t = 1
StraightStrands ==
  {<< <<0, <<r0, m0>>>>, <<TEnd, <<r1, m1>>>> >> : r0 \in ReVals, m0 \in ImVals,
                                                   r1 \in ReVals, m1 \in ImVals}

\* a strand with one more sample, at the first grid time after 0, and a
\* constant imaginary part
BentStrands ==
  {<< <<0, <<r0, m>>>>, <<1, <<r1, m>>>>, <<TEnd, <<r2, m>>>> >> :
     r0 \in ReVals, r1 \in ReVals, r2 \in ReVals, m \in ImVals}

\* three straight strands, or two strands of which one may be bent
FamiliesOf(n) ==
  IF n = 2
  THEN {fam \in [1..2 -> StraightStrands \cup BentStrands] :
          fam[1] \in StraightStrands \/ fam[2] \in StraightStrands}
  ELSE [1..n -> StraightStrands]

SampleTimes(strand) == {TimeOf(strand[x]) : x \in 1..Len(strand)}

GridTimes(fam) == SetToSeq(UNION {SampleTimes(fam[j]) : j \in 1..Len(fam)})

\* the point of the polyline at time t, from the samples that bracket t
ValueAt(strand, t) ==
  LET q == CHOOSE x \in 1..(Len(strand) - 1) :
             TimeOf(strand[x]) <= t /\ t <= TimeOf(strand[x + 1])
      a == strand[q]
      b == strand[q + 1]
  IN <<ValOf(a)[1] + ((ValOf(b)[1] - ValOf(a)[1]) * (t - TimeOf(a))) \div (TimeOf(b) - TimeOf(a)),
       ValOf(a)[2] + ((ValOf(b)[2] - ValOf(a)[2]) * (t - TimeOf(a))) \div (TimeOf(b) - TimeOf(a))>>

\* two strands meet between two consecutive grid times: the difference of their
\* positions goes through 0
Meet(fam, a, b, t0, t1) ==
  LET d0 == <<ValueAt(fam[a], t0)[1] - ValueAt(fam[b], t0)[1],
              ValueAt(fam[a], t0)[2] - ValueAt(fam[b], t0)[2]>>
      d1 == <<ValueAt(fam[a], t1)[1] - ValueAt(fam[b], t1)[1],
              ValueAt(fam[a], t1)[2] - ValueAt(fam[b], t1)[2]>>
  IN \/ d0 = <<0, 0>>
     \/ d1 = <<0, 0>>
     \/ d0[1] * d1[2] - d0[2] * d1[1] = 0 /\ d0[1] * d1[1] + d0[2] * d1[2] < 0

\* the strands of a family never meet (what the tracker certifies)
NoCollision(fam) ==
  LET g == GridTimes(fam)
  IN \A s \in 1..(Len(g) - 1) : \A a \in 1..Len(fam) : \A b \in 1..Len(fam) :
       a < b => ~Meet(fam, a, b, g[s], g[s + 1])

StartSorted(fam) ==
  \A a \in 1..(Len(fam) - 1) : PtLess(ValOf(fam[a][1]), ValOf(fam[a + 1][1]))

Reversed(s) == [x \in 1..Len(s) |-> s[Len(s) + 1 - x]]

Families ==
  UNION {{fam \in FamiliesOf(n) : StartSorted(fam) /\ NoCollision(fam)} : n \in StrandCounts}

\* where the real parts of strands a and b agree between two grid times:
\* "all" the way, "at" one parameter num/den, or "none"
Tie(fam, a, b, t0, t1) ==
  LET d0 == ValueAt(fam[a], t0)[1] - ValueAt(fam[b], t0)[1]
      d1 == ValueAt(fam[a], t1)[1] - ValueAt(fam[b], t1)[1]
  IN IF d0 = 0 /\ d1 = 0 THEN <<"all", 0, 1>>
     ELSE IF d0 * d1 <= 0 THEN <<"at", Abs(d0), Abs(d0 - d1)>>
     ELSE <<"none", 0, 1>>

\* two different pairs of strands have equal real parts at the same time
Simultaneous(fam) ==
  LET g == GridTimes(fam)
      n == Len(fam)
      prs == {ab \in (1..n) \X (1..n) : ab[1] < ab[2]}
  IN \E s \in 1..(Len(g) - 1) : \E p \in prs : \E q \in prs :
       LET tp == Tie(fam, p[1], p[2], g[s], g[s + 1])
           tq == Tie(fam, q[1], q[2], g[s], g[s + 1])
       IN /\ p # q
          /\ tp[1] # "none"
          /\ tq[1] # "none"
          /\ (tp[1] = "all" \/ tq[1] = "all" \/ tp[2] * tq[3] = tq[2] * tp[3])

\* a sample put on the polyline of the strand, at time t
InsertSample(strand, t) ==
  LET q == CHOOSE x \in 1..(Len(strand) - 1) :
             TimeOf(strand[x]) < t /\ t < TimeOf(strand[x + 1])
  IN SubSeq(strand, 1, q) \o << <<t, ValueAt(strand, t)>> >> \o SubSeq(strand, q + 1, Len(strand))

\* ------------------------------------------------- the functions not running

IdleB ==
  /\ L = None /\ i = None /\ totalpoints = None /\ indices = None /\ sl = None
  /\ cruces = None /\ crossesl = None /\ P = None /\ braid = None /\ pc = None
  /\ visited = None /\ tsel = None /\ emitted = None /\ first = None /\ orig = None
  /\ nres = None

IdleF ==
  /\ fsArgs = None /\ fsPrec = None /\ fsCoefs = None /\ fsDepth = None /\ fsPc = None
  /\ fsPoints = None /\ fsCalls = None

IdleS ==
  /\ y0s = None /\ y1s = None /\ complexstrands = None /\ centralbraid = None
  /\ used = None /\ initialstrands = None /\ initialbraid = None /\ finalstrands = None
  /\ sgK = None /\ sgPc = None /\ sgResult = None

IdleG ==
  /\ d = None /\ simplified = None /\ projective = None /\ disc = None /\ segs = None
  /\ vertices = None /\ rels = None /\ pending = None /\ workers = None
  /\ outcomes = None /\ yielded = None /\ G = None /\ fgPc = None

\* ------------------------------------------ braid_from_piecewise, step by step

\* lines 67-70 and 86
Enter(strands) ==
  /\ L' = strands
  /\ indices' = [j \in 1..Len(strands) |-> 2]
  /\ i' = NextTime(strands, [j \in 1..Len(strands) |-> 2])
  /\ totalpoints' = [j \in 1..Len(strands) |-> <<ValOf(strands[j][1])>>]
  /\ braid' = << >>
  /\ sl' = 0
  /\ cruces' = << >>
  /\ crossesl' = << >>
  /\ P' = Identity(Len(strands))
  /\ visited' = << >>
  /\ tsel' = <<0, 1>>
  /\ emitted' = << >>
  /\ pc' = "merge"

InitB ==
  \E fam \in Families : \E rev \in BOOLEAN :
    LET strands == IF rev /\ Len(fam) = 2 THEN Reversed(fam) ELSE fam
    IN /\ L = strands
       /\ indices = [j \in 1..Len(strands) |-> 2]
       /\ i = NextTime(strands, [j \in 1..Len(strands) |-> 2])
       /\ totalpoints = [j \in 1..Len(strands) |-> <<ValOf(strands[j][1])>>]
       /\ braid = << >>
       /\ sl = 0
       /\ cruces = << >>
       /\ crossesl = << >>
       /\ P = Identity(Len(strands))
       /\ visited = << >>
       /\ tsel = <<0, 1>>
       /\ emitted = << >>
       /\ pc = "merge"
       /\ first = None
       /\ orig = strands
       /\ nres = 0

\* lines 71-83: one iteration of the while loop
Merge ==
  /\ pc = "merge"
  /\ LoopCond(i)
  /\ totalpoints' = MergePoints(L, indices, totalpoints, i)
  /\ indices' = MergeIndices(L, indices, i)
  /\ visited' = Append(visited, i)
  /\ IF InRange(L, indices')
     THEN i' = NextTime(L, indices') /\ pc' = "merge"
     ELSE i' = i /\ pc' = "IndexError"
  /\ UNCHANGED <<L, sl, cruces, crossesl, P, braid, tsel, emitted, first, orig, nres>>
  /\ UNCHANGED <<varsF, varsS, varsG>>

\* lines 84-87: the loop is left, the last samples are appended
EndMerge ==
  /\ pc = "merge"
  /\ ~LoopCond(i)
  /\ totalpoints' = AppendLast(L, totalpoints)
  /\ sl' = 1
  /\ pc' = "slices"
  /\ UNCHANGED <<L, i, indices, cruces, crossesl, P, braid, visited, tsel, emitted,
                 first, orig, nres>>
  /\ UNCHANGED <<varsF, varsS, varsG>>

\* lines 88-104: the crossings of one slice
Slice ==
  /\ pc = "slices"
  /\ sl <= Len(totalpoints[1]) - 1
  /\ LET cs == Cruces(SortM(totalpoints, sl))
     IN IF Degenerate(cs)
        THEN /\ pc' = "ArithmeticError"
             /\ UNCHANGED <<sl, cruces, P>>
        ELSE IF Len(cs) > 0
        THEN /\ cruces' = cs
             /\ P' = Identity(Len(L))
             /\ pc' = "cruces"
             /\ sl' = sl
        ELSE /\ sl' = sl + 1
             /\ pc' = "slices"
             /\ UNCHANGED <<cruces, P>>
  /\ emitted' = << >>
  /\ UNCHANGED <<L, i, totalpoints, indices, crossesl, braid, visited, tsel, first, orig, nres>>
  /\ UNCHANGED <<varsF, varsS, varsG>>

\* lines 105-109: the crossings that share the smallest t
SelectSameT ==
  /\ pc = "cruces"
  /\ cruces # << >>
  /\ LET crucesl == SameTPrefix(cruces)
     IN /\ crossesl' = WithDistances(P, crucesl)
        /\ cruces' = SubSeq(cruces, Len(crucesl) + 1, Len(cruces))
  /\ tsel' = <<cruces[1][1], cruces[1][2]>>
  /\ pc' = "crosses"
  /\ UNCHANGED <<L, i, totalpoints, indices, sl, P, braid, visited, emitted, first, orig, nres>>
  /\ UNCHANGED <<varsF, varsS, varsG>>

\* lines 110-115: one crossing is emitted
Pick ==
  /\ pc = "crosses"
  /\ crossesl # << >>
  /\ LET c == Pop(crossesl).c
         perm == Transposed(P, c)
         rest == Redistance(perm, Pop(crossesl).rest)
     IN /\ braid' = Append(braid, Letter(P, c))
        /\ P' = perm
        /\ crossesl' = rest
        /\ emitted' = Append(emitted,
             [cross |-> c, t |-> tsel, before |-> P, pending |-> crossesl, later |-> cruces])
        /\ IF rest # << >> THEN pc' = "crosses" /\ sl' = sl
           ELSE IF cruces # << >> THEN pc' = "cruces" /\ sl' = sl
           ELSE pc' = "slices" /\ sl' = sl + 1
  /\ UNCHANGED <<L, i, totalpoints, indices, cruces, visited, tsel, first, orig, nres>>
  /\ UNCHANGED <<varsF, varsS, varsG>>

\* lines 116-117
Return ==
  /\ pc = "slices"
  /\ sl > Len(totalpoints[1]) - 1
  /\ pc' = "done"
  /\ UNCHANGED <<L, i, totalpoints, indices, sl, cruces, crossesl, P, braid,
                 visited, tsel, emitted, first, orig, nres>>
  /\ UNCHANGED <<varsF, varsS, varsG>>

\* the same curves sampled more densely: a sample is put on one strand's
\* polyline and the braid is extracted again
Resample ==
  /\ pc = "done"
  /\ nres < MaxResamples
  /\ \E j \in 1..Len(L) : \E t \in 1..(TEnd - 1) :
       /\ t \notin SampleTimes(L[j])
       /\ Enter([L EXCEPT ![j] = InsertSample(L[j], t)])
  /\ first' = IF first = None THEN braid ELSE first
  /\ nres' = nres + 1
  /\ UNCHANGED orig
  /\ UNCHANGED <<varsF, varsS, varsG>>

NextB == Merge \/ EndMerge \/ Slice \/ SelectSameT \/ Pick \/ Return \/ Resample

InitBraid == InitB /\ IdleF /\ IdleS /\ IdleG

SpecBraid == InitBraid /\ [][NextB]_vars

\* ------------------------------------------------------------ followstrand

\* line 199: prec=53
DefaultPrec == 53

\* line 269: followstrand(f, x0, x1, y0a, 2*prec)
RetryPrecBad(prec) == prec + DefaultPrec

RetryPrec(prec) == 2 * prec

\* lines 263-266: the kernel a call runs
KernelFor(prec) == IF prec = DefaultPrec THEN "contpath" ELSE "contpath_mp"

\* the polynomials, segments and starting roots explored
Polynomials == {"f", "g"}

SegmentEnds == {<< <<0, 0>>, <<1, 0>> >>, << <<0, 0>>, <<1, 1>> >>}

StartRoots == {<<0, 0>>, <<2, 0>>, <<0, 2>>}

\* what the kernel may return: samples from y0a at t = 0 to some value at t = 1
KernelOutputs(y0a) ==
  {<< <<0, y0a>>, <<TEnd, y1>> >> : y1 \in StartRoots} \cup
  {<< <<0, y0a>>, <<1, y0a>>, <<TEnd, y1>> >> : y1 \in StartRoots}

Raised == "raised"

\* the interval polynomial is not computed yet
NoCoefs == [f |-> "", seg |-> << >>, y0a |-> << >>, prec |-> 0]

InitF ==
  /\ fsArgs \in [f : Polynomials, seg : SegmentEnds, y0a : StartRoots]
  /\ fsPrec = DefaultPrec
  /\ fsCoefs = NoCoefs
  /\ fsDepth = 1
  /\ fsPc = "setup"
  /\ fsPoints = << >>
  /\ fsCalls = << >>

\* lines 246-261: the interval polynomial on the segment and the starting
\* value, at the call's precision
Setup ==
  /\ fsPc = "setup"
  /\ fsCoefs' = [f |-> fsArgs.f, seg |-> fsArgs.seg, y0a |-> fsArgs.y0a, prec |-> fsPrec]
  /\ fsPc' = "try"
  /\ UNCHANGED <<fsArgs, fsPrec, fsDepth, fsPoints, fsCalls>>
  /\ UNCHANGED <<varsB, varsS, varsG>>

\* lines 262-267: the kernel returns its samples
KernelReturns ==
  /\ fsPc = "try"
  /\ \E pts \in KernelOutputs(fsArgs.y0a) :
       /\ fsPoints' = pts
       /\ fsCalls' = Append(fsCalls, [kernel |-> KernelFor(fsPrec), coefs |-> fsCoefs, out |-> pts])
  /\ fsPc' = "return"
  /\ UNCHANGED <<fsArgs, fsPrec, fsCoefs, fsDepth>>
  /\ UNCHANGED <<varsB, varsS, varsG>>

\* lines 268-269: the kernel raises, followstrand calls itself
KernelRaises ==
  /\ fsPc = "try"
  /\ fsDepth < MaxAttempts
  /\ fsCalls' = Append(fsCalls, [kernel |-> KernelFor(fsPrec), coefs |-> fsCoefs, out |-> Raised])
  /\ fsDepth' = fsDepth + 1
  /\ fsPrec' = RetryPrec(fsPrec)
  /\ fsCoefs' = NoCoefs
  /\ fsPc' = "setup"
  /\ UNCHANGED <<fsArgs, fsPoints>>
  /\ UNCHANGED <<varsB, varsS, varsG>>

\* lines 267 and 269: a call returns what it got to its caller
FrameReturns ==
  /\ fsPc = "return"
  /\ fsDepth' = fsDepth - 1
  /\ fsPc' = IF fsDepth = 1 THEN "returned" ELSE "return"
  /\ UNCHANGED <<fsArgs, fsPrec, fsCoefs, fsPoints, fsCalls>>
  /\ UNCHANGED <<varsB, varsS, varsG>>

NextF == Setup \/ KernelReturns \/ KernelRaises \/ FrameReturns

\* a call that is made runs on: the kernel answers and the frames return
InitFollow == InitF /\ IdleB /\ IdleS /\ IdleG

SpecFollow == InitFollow /\ [][NextF]_vars /\ WF_vars(NextF)

\* ------------------------------- braid_from_piecewise, as a function

\* lines 71-83: a strand's samples end before the loop does
RECURSIVE MergeRaises(_, _, _)
MergeRaises(strands, idx, t) ==
  /\ LoopCond(t)
  /\ \/ ~InRange(strands, MergeIndices(strands, idx, t))
     \/ MergeRaises(strands, MergeIndices(strands, idx, t),
                    NextTime(strands, MergeIndices(strands, idx, t)))

\* lines 71-85
RECURSIVE MergeLoop(_, _, _, _)
MergeLoop(strands, idx, tp, t) ==
  IF LoopCond(t) /\ InRange(strands, MergeIndices(strands, idx, t))
  THEN MergeLoop(strands, MergeIndices(strands, idx, t), MergePoints(strands, idx, tp, t),
                 NextTime(strands, MergeIndices(strands, idx, t)))
  ELSE AppendLast(strands, tp)

\* lines 110-115
RECURSIVE PickAll(_, _, _)
PickAll(cl, perm, word) ==
  IF cl = << >> THEN [perm |-> perm, word |-> word]
  ELSE PickAll(Redistance(Transposed(perm, Pop(cl).c), Pop(cl).rest),
               Transposed(perm, Pop(cl).c),
               Append(word, Letter(perm, Pop(cl).c)))

\* lines 105-109
RECURSIVE GroupAll(_, _, _)
GroupAll(cs, perm, word) ==
  IF cs = << >> THEN word
  ELSE LET g == SameTPrefix(cs)
           r == PickAll(WithDistances(perm, g), perm, word)
       IN GroupAll(SubSeq(cs, Len(g) + 1, Len(cs)), r.perm, r.word)

\* line 99: a division by zero in some slice
RECURSIVE SliceRaises(_, _)
SliceRaises(tp, s) ==
  /\ s <= Len(tp[1]) - 1
  /\ (Degenerate(Cruces(SortM(tp, s))) \/ SliceRaises(tp, s + 1))

\* lines 88-115
RECURSIVE SliceAll(_, _, _)
SliceAll(tp, s, word) ==
  IF s > Len(tp[1]) - 1 \/ Degenerate(Cruces(SortM(tp, s))) THEN word
  ELSE SliceAll(tp, s + 1, GroupAll(Cruces(SortM(tp, s)), Identity(Len(tp)), word))

\* lines 67-85
Totalpoints(strands) ==
  MergeLoop(strands, [j \in 1..Len(strands) |-> 2],
            [j \in 1..Len(strands) |-> <<ValOf(strands[j][1])>>],
            NextTime(strands, [j \in 1..Len(strands) |-> 2]))

\* the error braid_from_piecewise raises on the strands, if any
BraidRaises(strands) ==
  IF MergeRaises(strands, [j \in 1..Len(strands) |-> 2],
                 NextTime(strands, [j \in 1..Len(strands) |-> 2]))
  THEN "IndexError"
  ELSE IF SliceRaises(Totalpoints(strands), 1) THEN "ArithmeticError"
  ELSE None

\* lines 67-117: the braid word returned
BraidFromPiecewise(strands) == SliceAll(Totalpoints(strands), 1, << >>)

\* a word of a free or braid group, freely reduced
RECURSIVE FreeReduce(_)
FreeReduce(w) ==
  IF \E x \in 1..(Len(w) - 1) : w[x] = -w[x + 1]
  THEN LET x == CHOOSE y \in 1..(Len(w) - 1) : w[y] = -w[y + 1]
       IN FreeReduce(SubSeq(w, 1, x - 1) \o SubSeq(w, x + 2, Len(w)))
  ELSE w

\* ---------------------------------------------------------- braid_in_segment

\* the exact roots and the tracked values explored
RootGrid == {<<r * Scale, m * Scale>> : r \in 0..1, m \in 0..1}

\* the lists of n distinct roots, in the order of QQbar
RootLists(n) ==
  {rs \in [1..n -> RootGrid] : \A a \in 1..(n - 1) : PtLess(rs[a], rs[a + 1])}

\* the values a tracked strand may start at
TrackGrid == RootGrid \cup {<<2 * Scale, 0>>}

\* lines 304-305: one strand per root, from followstrand
TrackedFamilies(n) ==
  {fam \in [1..n -> {<< <<0, a>>, <<TEnd, b>> >> : a \in TrackGrid, b \in RootGrid}] :
     NoCollision(fam)}

\* (y0ap - y0).norm()
Norm(z, w) == (z[1] - w[1]) * (z[1] - w[1]) + (z[2] - w[2]) * (z[2] - w[2])

\* lines 311-312 and 324-325: sorted(distances)[0][1]
Nearest(yap, roots) ==
  LET key(x) == <<Norm(yap, roots[x]), roots[x][1], roots[x][2]>>
      best == CHOOSE x \in 1..Len(roots) :
                \A y \in 1..Len(roots) : y # x => LexLess(key(x), key(y))
  IN roots[best]

\* lines 313 and 326: if y0 in used
InUsedBad(y, us) == Len(us) > 0 /\ y = us[Len(us)]

InUsed(y, us) == y \in Range(us)

TooClose == "ValueError: different roots are too close"

InitS ==
  /\ \E n \in StrandCounts : y0s \in RootLists(n) /\ y1s \in RootLists(n)
  /\ complexstrands = << >>
  /\ centralbraid = None
  /\ used = << >>
  /\ initialstrands = << >>
  /\ initialbraid = None
  /\ finalstrands = << >>
  /\ sgK = 0
  /\ sgPc = "track"
  /\ sgResult = None

\* lines 304-305: the strands come back from followstrand
Track ==
  /\ sgPc = "track"
  /\ complexstrands' \in TrackedFamilies(Len(y0s))
  /\ sgPc' = "central"
  /\ UNCHANGED <<y0s, y1s, centralbraid, used, initialstrands, initialbraid, finalstrands,
                 sgK, sgResult>>
  /\ UNCHANGED <<varsB, varsF, varsG>>

\* lines 306-309
Central ==
  /\ sgPc = "central"
  /\ IF BraidRaises(complexstrands) # None
     THEN /\ sgPc' = "raised"
          /\ sgResult' = BraidRaises(complexstrands)
          /\ UNCHANGED <<centralbraid, used, initialstrands, sgK>>
     ELSE /\ centralbraid' = BraidFromPiecewise(complexstrands)
          /\ used' = << >>
          /\ initialstrands' = << >>
          /\ sgK' = 1
          /\ sgPc' = "start"
          /\ UNCHANGED sgResult
  /\ UNCHANGED <<y0s, y1s, complexstrands, initialbraid, finalstrands>>
  /\ UNCHANGED <<varsB, varsF, varsG>>

\* lines 310-316: one strand's start is matched to an exact root at x0
MatchStart ==
  /\ sgPc = "start"
  /\ sgK <= Len(complexstrands)
  /\ LET y0ap == ValOf(complexstrands[sgK][1])
         y0 == Nearest(y0ap, y0s)
     IN IF InUsed(y0, used)
        THEN /\ sgPc' = "raised"
             /\ sgResult' = TooClose
             /\ UNCHANGED <<used, initialstrands, sgK>>
        ELSE /\ used' = Append(used, y0)
             /\ initialstrands' = Append(initialstrands, << <<0, y0>>, <<TEnd, y0ap>> >>)
             /\ sgK' = sgK + 1
             /\ UNCHANGED <<sgPc, sgResult>>
  /\ UNCHANGED <<y0s, y1s, complexstrands, centralbraid, initialbraid, finalstrands>>
  /\ UNCHANGED <<varsB, varsF, varsG>>

\* lines 317-322
InitialBraid ==
  /\ sgPc = "start"
  /\ sgK > Len(complexstrands)
  /\ IF BraidRaises(initialstrands) # None
     THEN /\ sgPc' = "raised"
          /\ sgResult' = BraidRaises(initialstrands)
          /\ UNCHANGED <<initialbraid, used, finalstrands, sgK>>
     ELSE /\ initialbraid' = BraidFromPiecewise(initialstrands)
          /\ used' = << >>
          /\ finalstrands' = << >>
          /\ sgK' = 1
          /\ sgPc' = "final"
          /\ UNCHANGED sgResult
  /\ UNCHANGED <<y0s, y1s, complexstrands, centralbraid, initialstrands>>
  /\ UNCHANGED <<varsB, varsF, varsG>>

\* lines 323-329: one strand's end is matched to an exact root at x1
MatchFinal ==
  /\ sgPc = "final"
  /\ sgK <= Len(complexstrands)
  /\ LET y1ap == ValOf(complexstrands[sgK][Len(complexstrands[sgK])])
         y1 == Nearest(y1ap, y1s)
     IN IF InUsed(y1, used)
        THEN /\ sgPc' = "raised"
             /\ sgResult' = TooClose
             /\ UNCHANGED <<used, finalstrands, sgK>>
        ELSE /\ used' = Append(used, y1)
             /\ finalstrands' = Append(finalstrands, << <<0, y1ap>>, <<TEnd, y1>> >>)
             /\ sgK' = sgK + 1
             /\ UNCHANGED <<sgPc, sgResult>>
  /\ UNCHANGED <<y0s, y1s, complexstrands, centralbraid, initialstrands, initialbraid>>
  /\ UNCHANGED <<varsB, varsF, varsG>>

\* lines 330-331
FinalBraid ==
  /\ sgPc = "final"
  /\ sgK > Len(complexstrands)
  /\ IF BraidRaises(finalstrands) # None
     THEN /\ sgPc' = "raised"
          /\ sgResult' = BraidRaises(finalstrands)
     ELSE /\ sgPc' = "returned"
          /\ sgResult' = FreeReduce(initialbraid \o centralbraid
                                     \o BraidFromPiecewise(finalstrands))
  /\ UNCHANGED <<y0s, y1s, complexstrands, centralbraid, used, initialstrands, initialbraid,
                 finalstrands, sgK>>
  /\ UNCHANGED <<varsB, varsF, varsG>>

NextS == Track \/ Central \/ MatchStart \/ InitialBraid \/ MatchFinal \/ FinalBraid

InitSeg == InitS /\ IdleB /\ IdleF /\ IdleG

SpecSeg == InitSeg /\ [][NextS]_vars

\* ------------------------------------------------------------------ segments

\* line 188: the maximum of an empty array is undefined, max() raises ValueError
ArrayMaxRaises(points) == points = << >>

\* line 188: abs(discpoints).max()
ArrayMax(points) ==
  MaxOf({Abs(points[x][1]) : x \in 1..Len(points)}
        \cup {Abs(points[x][2]) : x \in 1..Len(points)})

\* lines 188-189
Configuration(points, added) ==
  points \o << <<added, 0>>, <<-added, 0>>, <<0, added>>, <<0, -added>> >>

RECURSIVE GCD(_, _)
GCD(a, b) == IF b = 0 THEN a ELSE GCD(b, a % b)

\* a point with rational coordinates <<x / q, y / q>>, in lowest terms
Normalize(x, y, q) ==
  LET g == GCD(GCD(Abs(x), Abs(y)), Abs(q))
      sg == IF q < 0 THEN -g ELSE g
  IN <<x \div sg, y \div sg, q \div sg>>

Sq(p) == p[1] * p[1] + p[2] * p[2]

\* twice the signed area of a triangle
Area2(a, b, c) == a[1] * (b[2] - c[2]) + b[1] * (c[2] - a[2]) + c[1] * (a[2] - b[2])

\* the centre of the circle through three points, over the denominator 2 * Area2
CentreX(a, b, c) == Sq(a) * (b[2] - c[2]) + Sq(b) * (c[2] - a[2]) + Sq(c) * (a[2] - b[2])

CentreY(a, b, c) == Sq(a) * (c[1] - b[1]) + Sq(b) * (a[1] - c[1]) + Sq(c) * (b[1] - a[1])

\* p lies strictly inside the circle through a, b and c
InCircle(a, b, c, p) ==
  LET q == 2 * Area2(a, b, c)
      dist(z) == (z[1] * q - CentreX(a, b, c)) * (z[1] * q - CentreX(a, b, c))
                 + (z[2] * q - CentreY(a, b, c)) * (z[2] * q - CentreY(a, b, c))
  IN dist(p) < dist(a)

\* the triangles of the Delaunay triangulation, whose centres are the Voronoi vertices
Triangles(conf) ==
  {tr \in SUBSET (1..Len(conf)) :
     /\ Cardinality(tr) = 3
     /\ LET a == conf[MinOf(tr)]
            c == conf[MaxOf(tr)]
            b == conf[CHOOSE x \in tr : x # MinOf(tr) /\ x # MaxOf(tr)]
        IN /\ Area2(a, b, c) # 0
           /\ \A x \in (1..Len(conf)) \ tr : ~InCircle(a, b, c, conf[x])}

\* V.vertices
VoronoiVertex(conf, tr) ==
  LET a == conf[MinOf(tr)]
      c == conf[MaxOf(tr)]
      b == conf[CHOOSE x \in tr : x # MinOf(tr) /\ x # MaxOf(tr)]
  IN Normalize(CentreX(a, b, c), CentreY(a, b, c), 2 * Area2(a, b, c))

\* less-than on rational points, by real part and then imaginary part
VertexLess(v, w) ==
  \/ v[1] * w[3] < w[1] * v[3]
  \/ v[1] * w[3] = w[1] * v[3] /\ v[2] * w[3] < w[2] * v[3]

\* lines 190-196: the ridges of the diagram with two finite ends
Ridges(conf) ==
  {<<VoronoiVertex(conf, t1), VoronoiVertex(conf, t2)>> :
     <<t1, t2>> \in {pr \in Triangles(conf) \X Triangles(conf) :
                      /\ Cardinality(pr[1] \cap pr[2]) = 2
                      /\ VertexLess(VoronoiVertex(conf, pr[1]), VoronoiVertex(conf, pr[2]))}}

RECURSIVE SortRidges(_)
SortRidges(rs) ==
  IF rs = {} THEN << >>
  ELSE LET m == CHOOSE r \in rs : \A o \in rs \ {r} :
                  \/ VertexLess(r[1], o[1])
                  \/ r[1] = o[1] /\ VertexLess(r[2], o[2])
       IN <<m>> \o SortRidges(rs \ {m})

\* lines 187-197
Segments(points) == SortRidges(Ridges(Configuration(points, 3 * ArrayMax(points) + 1)))

\* -------------------------------------------------------- fundamental_group

Degrees == {1, 2}

\* the lists of branch points explored
Discriminants == {<< >>, << <<1, 0>> >>}

\* line 403: list(set(flatten(segs))), in any order
VertexOrders(sgs) ==
  LET vs == {sgs[x][1] : x \in 1..Len(sgs)} \cup {sgs[x][2] : x \in 1..Len(sgs)}
  IN {vl \in [1..Cardinality(vs) -> vs] : Range(vl) = vs}

\* the braids a segment's task may return
SegmentBraids(n) ==
  {<< >>} \cup {<<g>> : g \in 1..(n - 1)} \cup {<<-g>> : g \in 1..(n - 1)}

NoData == "NO DATA"

\* what a task did: nothing yet, returned a braid, or raised
NotComputed == [state |-> "running", braid |-> << >>]

Outcomes(n) ==
  {[state |-> "returned", braid |-> b] : b \in SegmentBraids(n)}
  \cup {[state |-> Raised, braid |-> << >>]}

\* what the loop receives for a task: a task that raised yields "NO DATA"
TaskResultBad(outcome) == [data |-> "braid", braid |-> outcome.braid]

TaskResult(outcome) ==
  IF outcome.state = Raised THEN [data |-> NoData, braid |-> << >>]
  ELSE [data |-> "braid", braid |-> outcome.braid]

\* line 412: the segment the relators are computed for
YieldedSegBad(sgs, seg, pos) == sgs[pos]

YieldedSeg(sgs, seg, pos) == sgs[seg]

\* the generator is exhausted
ExhaustedBad(v, w) == v = << >>

Exhausted(v, w) == v = << >> /\ w = {}

\* vertices.index
Index(list, x) == (CHOOSE y \in 1..Len(list) : list[y] = x) - 1

\* b.inverse()
Inverse(w) == [x \in 1..Len(w) |-> -w[Len(w) + 1 - x]]

\* the image of a generator of the free group under a generator of the braid group
GenImage(x, g) ==
  IF g > 0
  THEN IF x = g THEN <<x, x + 1, -x>> ELSE IF x = g + 1 THEN <<g>> ELSE <<x>>
  ELSE IF x = -g THEN <<x + 1>> ELSE IF x = 1 - g THEN <<-x, x - 1, x>> ELSE <<x>>

LetterImage(a, g) == IF a > 0 THEN GenImage(a, g) ELSE Inverse(GenImage(-a, g))

RECURSIVE WordImage(_, _)
WordImage(w, g) ==
  IF w = << >> THEN << >> ELSE LetterImage(Head(w), g) \o WordImage(Tail(w), g)

\* the action of a braid on a word of the free group
RECURSIVE Act(_, _)
Act(w, b) == IF b = << >> THEN FreeReduce(w) ELSE Act(FreeReduce(WordImage(w, Head(b))), Tail(b))

\* lines 417-421, for the generator k + 1
Relator(n, vs, seg, b, k) ==
  LET el1 == Act(<<k + 1>>, Inverse(b))
      w1 == [x \in 1..Len(el1) |-> Sign(el1[x]) * n * Index(vs, seg[1]) + el1[x]]
      w2 == <<n * Index(vs, seg[2]) + k + 1>>
  IN FreeReduce(w1 \o Inverse(w2))

\* lines 414-421
Relators(n, vs, seg, b) == [k \in 1..n |-> Relator(n, vs, seg, b, k - 1)]

\* lines 407-408
FirstRels(n, proj) == IF proj THEN << [x \in 1..n |-> x] >> ELSE << >>

\* spawn tasks while fewer than NCpus are running
RECURSIVE Spawn(_, _)
Spawn(v, w) ==
  IF v # << >> /\ Cardinality(w) < NCpus
  THEN Spawn(Tail(v), w \cup {Head(v)})
  ELSE [pending |-> v, workers |-> w]

InitG ==
  /\ d \in Degrees
  /\ simplified \in BOOLEAN
  /\ projective \in BOOLEAN
  /\ disc \in Discriminants
  /\ segs = None
  /\ vertices = None
  /\ rels = << >>
  /\ pending = << >>
  /\ workers = {}
  /\ outcomes = << >>
  /\ yielded = << >>
  /\ G = None
  /\ fgPc = "segments"

\* line 402 fails
SegmentsRaises ==
  /\ fgPc = "segments"
  /\ ArrayMaxRaises(disc)
  /\ fgPc' = "ValueError"
  /\ UNCHANGED <<d, simplified, projective, disc, segs, vertices, rels, pending, workers,
                 outcomes, yielded, G>>
  /\ UNCHANGED <<varsB, varsF, varsS>>

\* lines 402-409
Network ==
  /\ fgPc = "segments"
  /\ ~ArrayMaxRaises(disc)
  /\ segs' = Segments(disc)
  /\ vertices' \in VertexOrders(Segments(disc))
  /\ rels' = FirstRels(d, projective)
  /\ pending' = [x \in 1..Len(Segments(disc)) |-> x]
  /\ workers' = {}
  /\ outcomes' = [x \in 1..Len(Segments(disc)) |-> NotComputed]
  /\ fgPc' = "loop"
  /\ UNCHANGED <<d, simplified, projective, disc, yielded, G>>
  /\ UNCHANGED <<varsB, varsF, varsS>>

\* line 411: the loop asks for the first result, and the first tasks start
Start ==
  /\ fgPc = "loop"
  /\ pending' = Spawn(pending, workers).pending
  /\ workers' = Spawn(pending, workers).workers
  /\ fgPc' = "wait"
  /\ UNCHANGED <<d, simplified, projective, disc, segs, vertices, rels, outcomes, yielded, G>>
  /\ UNCHANGED <<varsB, varsF, varsS>>

\* a task's braid_in_segment returns or raises
Finish(seg) ==
  /\ fgPc = "wait"
  /\ seg \in workers
  /\ outcomes[seg] = NotComputed
  /\ \E outcome \in Outcomes(d) :
       outcomes' = [outcomes EXCEPT ![seg] = outcome]
  /\ UNCHANGED <<d, simplified, projective, disc, segs, vertices, rels, pending, workers,
                 yielded, G, fgPc>>
  /\ UNCHANGED <<varsB, varsF, varsS>>

\* lines 411-421: the loop receives one result and builds its relators; "NO DATA"
\* is a string, and b.inverse() on it raises AttributeError
Receive(seg) ==
  /\ fgPc = "wait"
  /\ seg \in workers
  /\ outcomes[seg] # NotComputed
  /\ yielded' = Append(yielded, seg)
  /\ IF TaskResult(outcomes[seg]).data = NoData
     THEN /\ fgPc' = "AttributeError"
          /\ workers' = workers \ {seg}
          /\ UNCHANGED <<rels, pending>>
     ELSE /\ rels' = rels \o Relators(d, vertices,
                                      YieldedSeg(segs, seg, Len(yielded) + 1),
                                      TaskResult(outcomes[seg]).braid)
          /\ pending' = Spawn(pending, workers \ {seg}).pending
          /\ workers' = Spawn(pending, workers \ {seg}).workers
          /\ UNCHANGED fgPc
  /\ UNCHANGED <<d, simplified, projective, disc, segs, vertices, outcomes, G>>
  /\ UNCHANGED <<varsB, varsF, varsS>>

\* lines 422-426
Present ==
  /\ fgPc = "wait"
  /\ Exhausted(pending, workers)
  /\ G' = [generators |-> d * Len(vertices), relators |-> rels, simplified |-> simplified]
  /\ fgPc' = "done"
  /\ UNCHANGED <<d, simplified, projective, disc, segs, vertices, rels, pending, workers,
                 outcomes, yielded>>
  /\ UNCHANGED <<varsB, varsF, varsS>>

NextG ==
  \/ SegmentsRaises
  \/ Network
  \/ Start
  \/ \E seg \in DOMAIN outcomes : Finish(seg)
  \/ \E seg \in DOMAIN outcomes : Receive(seg)
  \/ Present

InitFG == InitG /\ IdleB /\ IdleF /\ IdleS

SpecFG == InitFG /\ [][NextG]_vars

\* ----------------------------------------------------------------- claims

\* the common times of the merged strands: 0, the times visited, 1
CommonTimes == <<0>> \o visited \o <<TEnd>>

Merged == pc \in {"slices", "cruces", "crosses", "done"}

\* the strands are in the same (real part, then imaginary part) order at
\* every merged time
SameOrderEverywhere ==
  \A m \in 1..Len(totalpoints[1]) : \A a \in 1..Len(L) : \A b \in 1..Len(L) :
    PtLess(totalpoints[a][m], totalpoints[b][m]) <=> PtLess(totalpoints[a][1], totalpoints[b][1])

\* C1 as stated: after any resampling of the same polylines the emitted word
\* is the word of the family before resampling.
C1_SameWordAfterResampling == (pc = "done" /\ first # None) => braid = first

\* C1, amended: a family in which no two pairs of strands have equal real
\* parts at the same time gives the same word however it is resampled.
C1_SameWordWithoutSimultaneousCrossings ==
  (pc = "done" /\ first # None /\ ~Simultaneous(orig)) => braid = first

C1_Witness ==
  /\ pc = "done"
  /\ first # None
  /\ ~Simultaneous(orig)
  /\ Len(L) = 3
  /\ Len(braid) >= 2
  /\ Len(totalpoints[1]) = 3

\* C2: strands that keep their relative order at every merged time slice give
\* the empty braid word.
C2_ParallelStrandsEmptyWord == (pc = "done" /\ SameOrderEverywhere) => braid = << >>

C2_Witness ==
  /\ pc = "done"
  /\ SameOrderEverywhere
  /\ Len(totalpoints[1]) = 3
  /\ ~StartSorted(L)
  /\ \A j \in 1..Len(L) : totalpoints[j][1] # totalpoints[j][3]

\* C8: in a slice the crossings are emitted by non-decreasing t*; the one
\* emitted is at minimal distance, under the running permutation, among the
\* pending crossings of the same t*; the permutation is then transposed at that
\* pair and the pending distances are those under the new permutation.
C8_EmissionOrder ==
  \A x \in 1..Len(emitted) :
    LET e == emitted[x]
    IN /\ \A y \in 1..Len(e.pending) :
            /\ Abs(Distance(e.before, e.cross[2], e.cross[3]))
                 <= Abs(Distance(e.before, e.pending[y][2], e.pending[y][3]))
            /\ e.pending[y][1] = Distance(e.before, e.pending[y][2], e.pending[y][3])
       /\ \A y \in 1..Len(e.later) : e.t[1] * e.later[y][2] < e.later[y][1] * e.t[2]
       /\ x < Len(emitted) =>
            /\ e.t[1] * emitted[x + 1].t[2] <= emitted[x + 1].t[1] * e.t[2]
            /\ emitted[x + 1].before =
                 [e.before EXCEPT ![e.cross[2] + 1] = e.before[e.cross[3] + 1],
                                  ![e.cross[3] + 1] = e.before[e.cross[2] + 1]]
       /\ x = Len(emitted) =>
            P = [e.before EXCEPT ![e.cross[2] + 1] = e.before[e.cross[3] + 1],
                                 ![e.cross[3] + 1] = e.before[e.cross[2] + 1]]

C8_Witness ==
  /\ Len(emitted) = 3
  /\ Len(emitted[1].pending) = 3
  /\ emitted[1].pending[1][1] # emitted[1].pending[2][1]

NearestSet(yap, roots) ==
  {r \in Range(roots) : \A o \in Range(roots) : Norm(yap, r) <= Norm(yap, o)}

\* two strands have the same nearest root, or are equally far from the same roots
SameNearest(yaps, roots) ==
  \E a \in DOMAIN yaps : \E b \in DOMAIN yaps :
    a # b /\ NearestSet(yaps[a], roots) = NearestSet(yaps[b], roots)

StartValues == [a \in DOMAIN complexstrands |-> ValOf(complexstrands[a][1])]

FinalValues ==
  [a \in DOMAIN complexstrands |-> ValOf(complexstrands[a][Len(complexstrands[a])])]

\* C3: when two tracked strands have the same nearest exact root at the start of
\* the segment or at its end, the case of two strands equally far from the same
\* two roots included, braid_in_segment raises "different roots are too close";
\* it returns no braid and does nothing more
C3_DuplicateRootRaises ==
  /\ (sgPc \in {"returned", "raised"}
      /\ (SameNearest(StartValues, y0s) \/ SameNearest(FinalValues, y1s)))
     => (sgPc = "raised" /\ sgResult = TooClose)
  /\ sgPc = "raised" => ~ENABLED NextS

\* the start is matched without a duplicate, and two strands end equally far
\* from the same two roots
C3_Witness ==
  /\ sgPc = "raised"
  /\ sgResult = TooClose
  /\ ~SameNearest(StartValues, y0s)
  /\ Len(initialstrands) = Len(complexstrands)
  /\ \E a \in DOMAIN complexstrands : \E b \in DOMAIN complexstrands :
       /\ a # b
       /\ Cardinality(NearestSet(FinalValues[a], y1s)) = 2
       /\ NearestSet(FinalValues[a], y1s) = NearestSet(FinalValues[b], y1s)

\* the segments whose task raised
Failed == {seg \in DOMAIN outcomes : outcomes[seg].state = Raised}

\* C4: when the braid computation of some segment fails, fundamental_group
\* aborts and returns no presentation, although relators may have been built
C4_FailedTaskAborts ==
  fgPc # None =>
    /\ Failed # {} => fgPc # "done" /\ G = None
    /\ \A seg \in Failed : seg \in Range(yielded) => fgPc = "AttributeError"

C4_Witness ==
  /\ fgPc = "AttributeError"
  /\ Failed # {}
  /\ Len(yielded) >= 2
  /\ Len(rels) > Len(FirstRels(d, projective))

\* the relators of the segments and of their braids, in no order
ExpectedRels ==
  Range(FirstRels(d, projective))
  \cup {Relator(d, vertices, segs[seg], outcomes[seg].braid, k) :
          seg \in DOMAIN segs, k \in 0..(d - 1)}

\* C5: the set of relators of the presentation depends on the segments and
\* their braids only, not on the order in which the results arrive
C5_RelatorsIndependentOfOrder ==
  fgPc = "done" => Range(G.relators) = ExpectedRels

\* the results arrived in another order than the tasks were started in, and the
\* braids differ from one segment to another
C5_Witness ==
  /\ fgPc = "done"
  /\ \E x \in 1..(Len(yielded) - 1) : yielded[x] > yielded[x + 1]
  /\ \E a \in DOMAIN outcomes : \E b \in DOMAIN outcomes :
       outcomes[a].braid # outcomes[b].braid

AllKernelOutputs == UNION {KernelOutputs(y0a) : y0a \in StartRoots}

\* the kernel calls made so far: precisions 53, 106, 212, ..., same arguments,
\* every call but the last one failed
CallsEscalate ==
  \A k \in 1..Len(fsCalls) :
    /\ fsCalls[k].coefs.prec = IF k = 1 THEN DefaultPrec ELSE 2 * fsCalls[k - 1].coefs.prec
    /\ fsCalls[k].kernel = IF k = 1 THEN "contpath" ELSE "contpath_mp"
    /\ fsCalls[k].coefs.f = fsArgs.f
    /\ fsCalls[k].coefs.seg = fsArgs.seg
    /\ fsCalls[k].coefs.y0a = fsArgs.y0a
    /\ k < Len(fsCalls) => fsCalls[k].out = Raised

\* C6: followstrand starts at 53 bits; each time the kernel fails it calls
\* itself with the same arguments and twice the precision; no failure reaches
\* the caller, who gets the samples of the attempt that succeeded
C6_PrecisionEscalation ==
  /\ [](fsPc # None => CallsEscalate)
  /\ [](fsPc = "returned" => fsPoints \in AllKernelOutputs)
  /\ \A pts \in AllKernelOutputs :
       (Len(fsCalls) > 0 /\ pts = fsCalls[Len(fsCalls)].out)
         ~> (fsPc = "returned" /\ fsPoints = pts)

C6_Witness ==
  /\ fsPc = "returned"
  /\ Len(fsCalls) = 3
  /\ fsCalls[2].out = Raised
  /\ fsCalls[3].coefs.prec = 4 * DefaultPrec
  /\ fsPoints = fsCalls[3].out

\* C7: with no branch point or one, segments returns a network, and
\* fundamental_group, not simplified, returns a presentation with d generators
\* for each vertex of the network
C7_DegenerateNetwork ==
  (fgPc # None /\ Len(disc) <= 1) =>
    /\ fgPc # "ValueError"
    /\ (fgPc = "done" /\ ~simplified) =>
         G.generators = d * Cardinality(Range(vertices))

\* C9: a relator is built only after the braid of every segment has been computed
C9_StrictBarrier ==
  (fgPc # None /\ Len(rels) > Len(FirstRels(d, projective))) =>
    \A seg \in DOMAIN outcomes : outcomes[seg] # NotComputed

\* C9, as the code has it: the relators of a segment are built when its result
\* arrives, after its own braid has been computed, and the presentation is
\* formed after the braid of every segment has been computed and received
C9_PresentationAfterAllBraids ==
  fgPc # None =>
    /\ \A x \in 1..Len(yielded) : outcomes[yielded[x]] # NotComputed
    /\ Len(rels) <= Len(FirstRels(d, projective)) + d * Len(yielded)
    /\ fgPc = "done" =>
         /\ \A seg \in DOMAIN outcomes : outcomes[seg] # NotComputed
         /\ Range(yielded) = DOMAIN segs

C9_Witness ==
  /\ fgPc = "done"
  /\ Len(segs) = 4
  /\ Len(G.relators) = Len(FirstRels(d, projective)) + 4 * d

====
